---- MODULE Spec2Model ----
(***************************************************************************)
(* Model of ycsb-rs: the generators (src/src/generator.rs), the workload   *)
(* (src/src/workload.rs) and the load-then-transact runner with its        *)
(* retry-on-abort loops (src/src/lib.rs).                                  *)
(*                                                                         *)
(* Keys are carried as the key ids handed to get_key_name; field values    *)
(* are random payload and are not carried.                                 *)
(***************************************************************************)
EXTENDS Integers, Sequences, FiniteSets, TLC

\* ---------------------------------------------------------------- bounds
MaxThreads == 2      \* nr_threads ranges over 1..MaxThreads
MaxRecords == 3      \* record_count is MaxRecords (or full batches + 1..MaxRecords)
MaxOps     == 2      \* operation_count is 0, MaxOps - 1 or MaxOps
MaxRetry   == 2      \* TransactionAborted data-call results in one run
MaxBatch   == 2      \* load_db runs with batch size MaxBatch besides BatchSize
MaxStart   == 1      \* insert_start is MaxStart; a shared counter's initial value is in 0..MaxStart
MaxCallers == 3      \* threads sharing one CounterGenerator
MaxCalls   == 4      \* total next() calls on the shared CounterGenerator
MaxPeeks   == 2      \* total last_value() calls on the shared CounterGenerator
MaxFields  == 2      \* field_count ranges over 0..MaxFields
MaxLen     == 2      \* the largest parameter of a DistributionSpec
UsizeBits  == 4      \* a wrapping usize subtraction wraps at 2^UsizeBits
FracBits   == 8      \* an f64 in [0, 1] is carried to FracBits binary places

\* ------------------------------------------------------ program constants
BatchSize == 32      \* the batch size run_ycsb passes to load_db

Operations == {"Insert", "Read", "Update", "Scan", "ReadModifyWrite"}

\* result.rs: the Error enum; TransactionAborted is the distinguished one
Errors == {"InvalidArgument", "UnknownSpecFormat", "TransactionAborted", "Io"}

Phases  == {"load", "txn"}
Threads == 1..MaxThreads
Workers == Phases \X Threads
Callers == 1..MaxCallers

\* db.rs: start_transaction, commit_transaction and abort_transaction take no key
NoKey == -1

VARIABLES
    \* inputs of run_ycsb
    spec,                 \* the WorkloadSpec fields the runner uses
    nr_threads,
    batch_size,           \* load_db's batch_size parameter
    db,                   \* "MockDb" (never fails) or "AnyDb" (any Db implementation)
    aborted,              \* data calls the backend has failed with TransactionAborted
    \* CoreWorkload
    ops,                  \* op_generator's (Operation, weight) list
    key_generator,        \* CounterGenerator seeded with insert_start
    insert_key_sequence,  \* CounterGenerator seeded with record_count
    \* progress bar of the running phase
    pb,
    \* run_ycsb (main thread)
    phase, mpc, mi, results, loaded, nr_txns, run_result,
    \* workers (load_db / bench_txn), indexed by <<phase, thread>>: the locals
    \* of the function and the position in it
    worker,
    \* a CounterGenerator shared by concurrent callers
    counter, counter_init, got,
    last_values,          \* the values last_value() has returned, in call order
    \* units (records, operations) of each phase whose commit_transaction
    \* has returned Ok
    committed,
    \* CoreWorkload::new applied to a WorkloadSpec
    overflow_checks,      \* the build profile: TRUE when integer overflow panics
    workload,             \* the result of CoreWorkload::new
    drawn,                \* the last value drawn from one of its generators
    \* the key ids of a run
    sequence_keys,        \* the ids next_sequence_key has returned, in call order
    load_inserted         \* the ids inserted by committed load transactions

cfgvars  == <<spec, nr_threads, batch_size, db, ops>>
genvars  == <<key_generator, insert_key_sequence>>
mainvars == <<phase, mpc, mi, results, loaded, nr_txns, run_result>>
ctrvars  == <<counter, counter_init, got, last_values>>
wlvars   == <<overflow_checks, workload, drawn>>
keyvars  == <<sequence_keys, load_inserted>>
vars     == <<cfgvars, aborted, genvars, pb, mainvars, worker, ctrvars,
              committed, wlvars, keyvars>>

\* ---------------------------------------------------------------- helpers
Min(x, y) == IF x < y THEN x ELSE y

RECURSIVE SumSeq(_)
SumSeq(s) == IF s = <<>> THEN 0 ELSE Head(s) + SumSeq(Tail(s))

Ok(n)  == [tag |-> "Ok",  count |-> n, err |-> "none"]
Err(e) == [tag |-> "Err", count |-> 0, err |-> e]
NoRet  == [tag |-> "none", count |-> 0, err |-> "none"]

\* ------------------------------------------------------- CounterGenerator
\* generator.rs: fetch_add(1, SeqCst) stores this value and returns the old one
FetchAdd_NoIncrement(c) == c

FetchAdd(c) == c + 1

\* generator.rs: CounterGenerator::new
CounterNew(val) == val

\* generator.rs: CounterGenerator::last_value: counter.load(Relaxed) returns
\* the stored value
LastValue(c) == c


\* ------------------------------------------------------------ CoreWorkload
\* workload.rs: the proportions of a WorkloadSpec, as integer weights
Mixes ==
    { [Read |-> 1, Update |-> 1, Insert |-> 0, Scan |-> 0, ReadModifyWrite |-> 0],
      [Read |-> 0, Update |-> 0, Insert |-> 1, Scan |-> 1, ReadModifyWrite |-> 2] }

\* workload.rs: CoreWorkload::new pushes the operations with a positive
\* proportion, in this order
PushIf(list, o, w) == IF w > 0 THEN Append(list, <<o, w>>) ELSE list

BuildOps(mix) ==
    PushIf(PushIf(PushIf(PushIf(PushIf(<<>>,
        "Read", mix.Read), "Update", mix.Update), "Insert", mix.Insert),
        "Scan", mix.Scan), "ReadModifyWrite", mix.ReadModifyWrite)

\* workload.rs: impl Default for Operation
DefaultOperation == "Insert"

\* generator.rs: DiscreteDistribution::new
RECURSIVE WeightSum(_)
WeightSum(values) ==
    IF values = <<>> THEN 0 ELSE Head(values)[2] + WeightSum(Tail(values))

\* generator.rs: DiscreteDistribution::sample. The draw val in [0,1) and the
\* accumulated weight / sum are both scaled by sum, so val ranges over
\* 0..sum-1 and "val < acc" compares integers.
RECURSIVE SampleWalk(_, _, _)
SampleWalk(values, val, acc) ==
    IF values = <<>> THEN DefaultOperation
    ELSE LET acc2 == acc + Head(values)[2]
         IN  IF val < acc2 THEN Head(values)[1]
             ELSE SampleWalk(Tail(values), val, acc2)

DiscreteSample(values, val) == SampleWalk(values, val, 0)

RngVals(values) ==
    IF WeightSum(values) = 0 THEN {0} ELSE 0..(WeightSum(values) - 1)

\* workload.rs: next_operation
NextOperations == { DiscreteSample(ops, v) : v \in RngVals(ops) }

\* workload.rs: key_sampler for request_dist = Uniform is
\* uniform_gen(0, record_count - 1); rand's Uniform::new(low, high) samples
\* the half-open range [low, high)
TransactionKeys == 0..(spec.record_count - 2)

\* ------------------------------------------------------ CoreWorkload::new
\* workload.rs: DistributionSpec. Zipfian's f64 skew is carried by name: the
\* code only tests it against 1.0
Constant(c)       == [kind |-> "Constant", a |-> c, b |-> 0, theta |-> "none"]
UniformSpec(x, y) == [kind |-> "Uniform",  a |-> x, b |-> y, theta |-> "none"]
Zipfian(n, s)     == [kind |-> "Zipfian",  a |-> n, b |-> 0, theta |-> s]
Latest            == [kind |-> "Latest",   a |-> 0, b |-> 0, theta |-> "none"]

\* generator.rs: const ZIPFIAN_CONSTANT
ZIPFIAN_CONSTANT == "0.99"

ThetaOne == "1.0"

\* workload.rs: impl Default for WorkloadSpec. The proportions 0.95 : 0.05
\* enter as the weights 19 : 1
DefaultSpec ==
    [field_count |-> 10, field_len_dist |-> Constant(100),
     mix |-> [Read |-> 19, Update |-> 1, Insert |-> 0, Scan |-> 0,
              ReadModifyWrite |-> 0],
     request_dist |-> UniformSpec(1, 1000),
     scan_len_dist |-> UniformSpec(1, 1000),
     insert_start |-> 0, record_count |-> 0, operation_count |-> 0]

\* the outcome of building one generator, and of CoreWorkload::new: Ok, an
\* Err value, or a panic that unwinds out of the constructor
Good      == [tag |-> "Ok",    err |-> "none"]
Failed(e) == [tag |-> "Err",   err |-> e]
Panic     == [tag |-> "Panic", err |-> "none"]
NotBuilt  == [tag |-> "none",  err |-> "none"]

\* usize subtraction a - b: with overflow checks (debug profile) a < b
\* panics, without them (release profile) the result wraps
Overflows(a, b, checks) == checks /\ a < b

WrapSub(a, b) == (a - b + 2^UsizeBits) % 2^UsizeBits

\* generator.rs: uniform_gen is rand's Uniform::new(low, high), which panics
\* unless low < high and samples the half-open range [low, high)
UniformNew(min, max) == IF min < max THEN Good ELSE Panic

UniformValues(min, max) == min..(max - 1)

\* generator.rs: ZipfDistribution::new
ZipfNew(min, max, theta) ==
    IF max < min THEN Failed("InvalidArgument")
    ELSE IF max - min + 1 < 2 THEN Failed("InvalidArgument")
    ELSE IF theta = ThetaOne THEN Failed("InvalidArgument")
    ELSE Good

\* Result::unwrap
Unwrap(r) == IF r.tag = "Err" THEN Panic ELSE r

\* generator.rs: SkewedLatestGenerator::new(basis), basis.last_value() = max
SkewedLatestNew(max) == Unwrap(ZipfNew(0, max, ZIPFIAN_CONSTANT))

\* workload.rs: the four generators CoreWorkload::new builds from a
\* DistributionSpec or a count, in the order it builds them
FieldLenGenerator(s) ==
    CASE s.field_len_dist.kind = "Constant" -> Good
      [] s.field_len_dist.kind = "Uniform" ->
             UniformNew(s.field_len_dist.a, s.field_len_dist.b)
      [] OTHER -> Failed("InvalidArgument")

KeySampler(s, checks) ==
    CASE s.request_dist.kind = "Uniform" ->
             IF Overflows(s.record_count, 1, checks) THEN Panic
             ELSE UniformNew(0, WrapSub(s.record_count, 1))
      [] s.request_dist.kind = "Zipfian" ->
             ZipfNew(0, s.record_count + (s.operation_count * s.mix.Insert) * 2,
                     s.request_dist.theta)
      [] s.request_dist.kind = "Latest" -> SkewedLatestNew(s.record_count)
      [] OTHER -> Failed("InvalidArgument")

FieldGenerator(s, checks) ==
    IF Overflows(s.field_count, 1, checks) THEN Panic
    ELSE UniformNew(0, WrapSub(s.field_count, 1))

ScanLenGenerator(s) ==
    CASE s.scan_len_dist.kind = "Uniform" ->
             UniformNew(s.scan_len_dist.a, s.scan_len_dist.b)
      [] s.scan_len_dist.kind = "Zipfian" ->
             ZipfNew(0, s.scan_len_dist.a, s.scan_len_dist.theta)
      [] OTHER -> Failed("InvalidArgument")

\* workload.rs: CoreWorkload::new: the first generator that fails or panics
\* ends the construction
CoreWorkloadNew(s, checks) ==
    IF FieldLenGenerator(s).tag # "Ok" THEN FieldLenGenerator(s)
    ELSE IF KeySampler(s, checks).tag # "Ok" THEN KeySampler(s, checks)
    ELSE IF FieldGenerator(s, checks).tag # "Ok" THEN FieldGenerator(s, checks)
    ELSE IF ScanLenGenerator(s).tag # "Ok" THEN ScanLenGenerator(s)
    ELSE Good

\* ------------------------------------------- ZipfDistribution::sample
\* An f64 in [0, 1] is carried as a multiple of 1 / One, every operation
\* rounding to the nearest multiple as f64 arithmetic rounds to the nearest
\* representable value; rng.gen::<f64>() draws a multiple of 1 / One in [0, 1)
One == 2^FracBits

Draws == 0..(One - 1)

RoundDiv(a, b) == (2 * a + b) \div (2 * b)

\* generator.rs: ZipfDistribution::new at theta = ZIPFIAN_CONSTANT:
\* alpha = 1 / (1 - theta); 0.5^theta, zeta(num_items, theta) and eta in
\* thousandths, indexed by num_items. For num_items = 2 the quotient that
\* defines eta is 0.0 / 0.0, a NaN.
Alpha == 100

HalfPowThetaMilli == 503

ZetaMilli ==
    << 1000, 1503, 1840, 2094, 2297, 2467, 2613, 2740,
       2854, 2956, 3049, 3135, 3214, 3287, 3355, 3420 >>

EtaMilli ==
    << 0, 0, 22, 24, 26, 28, 29, 31, 32, 32, 33, 34, 35, 36, 36, 37 >>

EtaIsNaN(num_items) == num_items = 2

\* f64::powf for an integer exponent
RECURSIVE PowFix(_, _)
PowFix(x, n) ==
    IF n = 0 THEN One
    ELSE IF n % 2 = 0
         THEN LET h == PowFix(x, n \div 2) IN RoundDiv(h * h, One)
         ELSE RoundDiv(PowFix(x, n - 1) * x, One)

\* generator.rs: ZipfDistribution::sample for the draw u = k / One. The
\* third branch returns base + (num_items * (eta * u - eta + 1)^alpha) as
\* usize as it is computed; a NaN casts to 0
ZipfSample(base, num_items, k) ==
    IF k * ZetaMilli[num_items] < 1000 * One THEN base
    ELSE IF k * ZetaMilli[num_items] < (1000 + HalfPowThetaMilli) * One
         THEN base + 1
    ELSE IF EtaIsNaN(num_items) THEN base
    ELSE base + (num_items
                   * PowFix(RoundDiv(1000 * One - EtaMilli[num_items] * (One - k),
                                     1000), Alpha)) \div One

ZipfValues(base, num_items) == { ZipfSample(base, num_items, k) : k \in Draws }

\* workload.rs: the largest element of the key sampler's Zipfian
KeyZipfMax(s) == s.record_count + (s.operation_count * s.mix.Insert) * 2

\* workload.rs: next_scan_length: the values scan_len_generator returns;
\* zipfian_gen(n, s) is ZipfDistribution::new(0, n, s), num_items = n + 1
ScanLengths(s) ==
    IF s.scan_len_dist.kind = "Uniform"
    THEN UniformValues(s.scan_len_dist.a, s.scan_len_dist.b)
    ELSE ZipfValues(0, s.scan_len_dist.a + 1)

\* generator.rs: SkewedLatestGenerator::next: max - zipfian.sample(), a
\* usize subtraction; the zipfian was built over [0, max0]
LatestKeys(max, max0, checks) ==
    { [panic |-> Overflows(max, v, checks), key |-> WrapSub(max, v)] :
         v \in ZipfValues(0, max0 + 1) }

\* workload.rs: next_transaction_key: the key ids key_sampler returns
SampledKeys(s, basis, checks) ==
    CASE s.request_dist.kind = "Uniform" ->
             { [panic |-> FALSE, key |-> v] :
                  v \in UniformValues(0, WrapSub(s.record_count, 1)) }
      [] s.request_dist.kind = "Zipfian" ->
             { [panic |-> FALSE, key |-> v] :
                  v \in ZipfValues(0, KeyZipfMax(s) + 1) }
      [] OTHER -> LatestKeys(LastValue(basis), s.record_count, checks)

\* the bounds of field_generator's Uniform
FieldIndexes(s) == UniformValues(0, WrapSub(s.field_count, 1))

NoDraw == [gen |-> "none", op |-> "none", index |-> 0]

\* ------------------------------------------------------------------- Db
\* db.rs: the result of one backend call. MockDb always returns Ok; any other
\* implementation of the trait may return Ok or an Error. The runner tells
\* TransactionAborted from every other Error, for which Io stands here.
\* AbortingDb is an implementation whose only Error is TransactionAborted.
BackendErrors == {"TransactionAborted", "Io"}

Outcomes ==
    CASE db = "MockDb" -> {"Ok"}
      [] db = "AbortingDb" -> {"Ok", "TransactionAborted"}
      [] OTHER -> {"Ok"} \cup BackendErrors

\* results a data call may return: at most MaxRetry TransactionAborted
\* results in one run
DataOutcomes ==
    IF aborted < MaxRetry THEN Outcomes
    ELSE Outcomes \ {"TransactionAborted"}

Aborts(r) == IF r = "TransactionAborted" THEN 1 ELSE 0

Entry(call, t, k, r) == [call |-> call, txn |-> t, key |-> k, res |-> r]

NoneCommitted == [ph \in Phases |-> 0]

\* db.rs: commit_transaction: the n units of the transaction are committed
\* when the call returns Ok
Commit(c, ph, r, n) == IF r = "Ok" THEN [c EXCEPT ![ph] = @ + n] ELSE c

\* --------------------------------------------------------------- run_ycsb
\* lib.rs: the share of each worker, record_count / nr_threads
Share_Whole(count, n) == count

Share(count, n) == count \div n

\* the inputs of a run: any thread count; MaxRecords records; no, all but
\* one or all operations; start offset MaxStart. A run of the backend that
\* never fails with no operations also loads more than one full batch per
\* worker.
ThreadCounts == 1..MaxThreads

OperationCounts == {0, MaxOps - 1, MaxOps}

RecordCounts(d, bs, n, oc) ==
    {MaxRecords}
      \cup (IF d = "MockDb" /\ oc = 0
            THEN { n * bs + r : r \in 1..MaxRecords } ELSE {})

\* a worker that is not running: pc is the position in load_db / bench_txn,
\* ulog the backend calls of the current unit of work, txn / ends the state of
\* the last transaction handle and the number of commit / abort calls on it,
\* draws the number of next_operation calls the worker has made
Idle ==
    [pc |-> "idle", num_ops |-> 0, total_count |-> 0, b |-> 0,
     batch |-> <<>>, bi |-> 1, op |-> "none", key |-> NoKey,
     txn |-> "none", ends |-> 0, attempt |-> 0,
     err |-> "none", ret |-> NoRet, ulog |-> <<>>, unit_base |-> 0,
     draws |-> 0]

\* the state when run_ycsb enters the load phase: the spec is parsed and
\* CoreWorkload::new has returned Ok
RunInit(dbs) ==
    /\ nr_threads \in ThreadCounts
    /\ db \in dbs
    /\ batch_size \in {MaxBatch, BatchSize}
    /\ \E oc \in OperationCounts, st \in {MaxStart}, mix \in Mixes :
       \E rc \in RecordCounts(db, batch_size, nr_threads, oc) :
          /\ spec = [record_count |-> rc, operation_count |-> oc,
                     insert_start |-> st, mix |-> mix]
          /\ ops = BuildOps(mix)
          /\ key_generator = CounterNew(st)
          /\ insert_key_sequence = CounterNew(rc)
          /\ pb = 0
    /\ aborted = 0
    /\ phase = "load" /\ mpc = "spawn" /\ mi = 0
    /\ results = <<>> /\ loaded = 0 /\ nr_txns = 0 /\ run_result = NoRet
    /\ worker = [w \in Workers |-> Idle]
    /\ counter = 0 /\ counter_init = 0 /\ got = [t \in Callers |-> <<>>]
    /\ last_values = <<>>
    /\ sequence_keys = <<>> /\ load_inserted = <<>>
    /\ committed = NoneCommitted
    /\ overflow_checks = FALSE /\ workload = Good /\ drawn = NoDraw

Init == RunInit({"MockDb", "AnyDb"})

\* worker w's record with the fields of upd replaced
With(w, upd) ==
    [worker EXCEPT ![w] =
        [f \in DOMAIN @ |-> IF f \in DOMAIN upd THEN upd[f] ELSE @[f]]]

Logged(w, call, k, r) ==
    Append(worker[w].ulog, Entry(call, worker[w].attempt, k, r))

\* the calls of the attempt the last logged call belongs to
LastAttempt(lg) ==
    IF lg = <<>> THEN <<>>
    ELSE LET IsLast(e) == e.txn = lg[Len(lg)].txn
         IN  SelectSeq(lg, IsLast)

\* worker w returns r: its locals are dropped; the calls of the last attempt
\* (lg) and the state of its handle (t, e) stay visible with the result
Returned(w, r, lg, t, e) ==
    [worker EXCEPT ![w] =
        [Idle EXCEPT !.pc = "ret", !.ret = r, !.ulog = LastAttempt(lg),
                     !.txn = t, !.ends = e, !.draws = worker[w].draws]]

\* ------------------------------------------------- run_ycsb (main thread)
\* lib.rs: `threads` is a lazy iterator: thread::spawn runs when the item is
\* pulled by the joining map, so worker mi+1 is spawned when the collect
\* asks for its result
PhaseCount == IF phase = "load" THEN spec.record_count ELSE spec.operation_count

MainSpawn ==
    /\ mpc = "spawn" /\ mi < nr_threads
    /\ worker' = With(<<phase, mi + 1>>,
                      [pc |-> "loop",
                       num_ops |-> Share(PhaseCount, nr_threads),
                       total_count |-> 0, b |-> 0])
    /\ mpc' = "join"
    /\ UNCHANGED <<cfgvars, aborted, genvars, pb, phase, mi, results, loaded, nr_txns,
                   run_result, ctrvars, committed, wlvars, keyvars>>

\* JoinHandle::join returns once the thread has finished
Joined_NoWait(w) == TRUE

Joined(w) == worker[w].pc = "exited"

\* lib.rs: t.join().unwrap() of an Ok result: collect keeps the count and
\* pulls the next item
MainJoinOk ==
    /\ mpc = "join" /\ Joined(<<phase, mi + 1>>)
    /\ worker[<<phase, mi + 1>>].ret.tag # "Err"
    /\ results' = Append(results, worker[<<phase, mi + 1>>].ret.count)
    /\ mi' = mi + 1
    /\ mpc' = "spawn"
    /\ UNCHANGED <<cfgvars, aborted, genvars, pb, phase, loaded, nr_txns, run_result,
                   worker, ctrvars, committed, wlvars, keyvars>>

\* lib.rs: collect::<Result<Vec<_>>>() stops at the first Err and pulls no
\* further item; `?` returns it from run_ycsb
MainJoinErr ==
    /\ mpc = "join" /\ Joined(<<phase, mi + 1>>)
    /\ worker[<<phase, mi + 1>>].ret.tag = "Err"
    /\ run_result' = Err(worker[<<phase, mi + 1>>].ret.err)
    /\ mpc' = "done"
    /\ UNCHANGED <<cfgvars, aborted, genvars, pb, phase, mi, results, loaded, nr_txns,
                   worker, ctrvars, committed, wlvars, keyvars>>

\* lib.rs: the load phase's iterator is exhausted: sum, report, and enter the
\* transaction phase with a new progress bar
MainLoaded ==
    /\ mpc = "spawn" /\ mi = nr_threads /\ phase = "load"
    /\ loaded' = SumSeq(results)
    /\ phase' = "txn" /\ mi' = 0 /\ results' = <<>> /\ pb' = 0
    /\ UNCHANGED <<cfgvars, aborted, genvars, mpc, nr_txns, run_result, worker, ctrvars, committed, wlvars, keyvars>>

\* lib.rs: the transaction phase's iterator is exhausted: sum, report, Ok(())
MainDone ==
    /\ mpc = "spawn" /\ mi = nr_threads /\ phase = "txn"
    /\ nr_txns' = SumSeq(results)
    /\ run_result' = Ok(0)
    /\ mpc' = "done"
    /\ UNCHANGED <<cfgvars, aborted, genvars, pb, phase, mi, results, loaded, worker,
                   ctrvars, committed, wlvars, keyvars>>

\* the thread's closure has returned: its locals are dropped and the
\* JoinHandle holds the result
WorkerExit(w) ==
    /\ worker[w].pc = "ret"
    /\ worker' = [worker EXCEPT ![w] =
                     [Idle EXCEPT !.pc = "exited", !.ret = worker[w].ret]]
    /\ UNCHANGED <<cfgvars, aborted, genvars, pb, mainvars, ctrvars, committed, wlvars, keyvars>>

\* ------------------------------------------------------------------ load_db
\* lib.rs: count = min(batch_size, num_ops - b)
BatchCount_NoClamp(bs, n, bb) == bs

BatchCount(bs, n, bb) == Min(bs, n - bb)

\* lib.rs: the match on load_batch's result
LoadMatch(res) ==
    IF res = "Ok" THEN "ok_arm"
    ELSE IF res = "TransactionAborted" THEN "abort_retry"
    ELSE "abort_fail"

\* lib.rs: `for b in (0..num_ops).step_by(batch_size)`, and Ok(total_count)
\* after the loop
LoadLoop(w) ==
    /\ w[1] = "load" /\ worker[w].pc = "loop"
    /\ IF worker[w].b < worker[w].num_ops
       THEN worker' = With(w, [pc |-> "build", batch |-> <<>>, ulog |-> <<>>,
                               attempt |-> 0,
                               unit_base |-> worker[w].total_count])
       ELSE worker' = Returned(w, Ok(worker[w].total_count), <<>>,
                               worker[w].txn, worker[w].ends)
    /\ UNCHANGED <<cfgvars, aborted, genvars, pb, mainvars, ctrvars, committed, wlvars, keyvars>>

\* lib.rs: one element of the batch: next_sequence_key() takes the next
\* value of key_generator
LoadBuild(w) ==
    /\ w[1] = "load" /\ worker[w].pc = "build"
    /\ LET nb == Append(worker[w].batch, key_generator)
       IN  worker' = With(w, [batch |-> nb,
                pc |-> IF Len(nb) >= BatchCount(batch_size, worker[w].num_ops,
                                                worker[w].b)
                       THEN "start" ELSE "build"])
    /\ key_generator' = FetchAdd(key_generator)
    /\ sequence_keys' = Append(sequence_keys, key_generator)
    /\ UNCHANGED <<cfgvars, aborted, insert_key_sequence, pb, mainvars, ctrvars,
                   committed, wlvars, load_inserted>>

\* lib.rs: db.start_transaction()?
LoadStart(w) ==
    /\ w[1] = "load" /\ worker[w].pc = "start"
    /\ \E r \in Outcomes :
         IF r = "Ok"
         THEN worker' = With(w, [pc |-> "exec", bi |-> 1, txn |-> "open",
                    ends |-> 0, attempt |-> worker[w].attempt + 1,
                    ulog |-> Append(worker[w].ulog,
                        Entry("start_transaction", worker[w].attempt + 1, NoKey, r))])
         ELSE worker' = Returned(w, Err(r),
                    Append(worker[w].ulog,
                        Entry("start_transaction", worker[w].attempt + 1, NoKey, r)),
                    worker[w].txn, worker[w].ends)
    /\ UNCHANGED <<cfgvars, aborted, genvars, pb, mainvars, ctrvars, committed, wlvars, keyvars>>

\* lib.rs: load_batch: one db.insert(...)? of the batch; after the last one
\* load_batch returns Ok(batch.len())
LoadInsert(w) ==
    /\ w[1] = "load" /\ worker[w].pc = "exec"
    /\ \E r \in DataOutcomes :
       /\ aborted' = aborted + Aborts(r)
       /\ LET lg == Logged(w, "insert", worker[w].batch[worker[w].bi], r)
         IN  IF r = "Ok"
             THEN IF worker[w].bi = Len(worker[w].batch)
                  THEN worker' = With(w, [pc |-> LoadMatch("Ok"), ulog |-> lg])
                  ELSE worker' = With(w, [bi |-> worker[w].bi + 1, ulog |-> lg])
             ELSE worker' = With(w, [pc |-> LoadMatch(r), err |-> r, ulog |-> lg])
    /\ UNCHANGED <<cfgvars, genvars, pb, mainvars, ctrvars, committed, wlvars, keyvars>>

\* lib.rs: Ok(count) arm: total_count += count; pb.inc(count)
LoadOkArm(w) ==
    /\ w[1] = "load" /\ worker[w].pc = "ok_arm"
    /\ worker' = With(w, [pc |-> "commit",
            total_count |-> worker[w].total_count + Len(worker[w].batch)])
    /\ pb' = pb + Len(worker[w].batch)
    /\ UNCHANGED <<cfgvars, aborted, genvars, mainvars, ctrvars, committed, wlvars, keyvars>>

\* lib.rs: db.commit_transaction(txn)?; break
LoadCommit(w) ==
    /\ w[1] = "load" /\ worker[w].pc = "commit"
    /\ \E r \in Outcomes :
       /\ LET lg == Logged(w, "commit_transaction", NoKey, r)
         IN  IF r = "Ok"
             THEN worker' = With(w, [pc |-> "loop", b |-> worker[w].b + batch_size,
                      txn |-> "committed", ends |-> worker[w].ends + 1, ulog |-> lg])
             ELSE worker' = Returned(w, Err(r), lg, "committed", worker[w].ends + 1)
       /\ committed' = Commit(committed, "load", r, Len(worker[w].batch))
       /\ load_inserted' = IF r = "Ok" THEN load_inserted \o worker[w].batch
                           ELSE load_inserted
    /\ UNCHANGED <<cfgvars, aborted, genvars, pb, mainvars, ctrvars, wlvars,
                   sequence_keys>>

\* lib.rs: `continue` restarts the inner `loop`, at db.start_transaction();
\* the batch was built before the loop
LoadRetryAt_Rebuild == "build"

LoadRetryAt == "start"

\* lib.rs: Err(TransactionAborted) arm: db.abort_transaction(txn)?; continue
LoadAbortRetry(w) ==
    /\ w[1] = "load" /\ worker[w].pc = "abort_retry"
    /\ \E r \in Outcomes :
         LET lg == Logged(w, "abort_transaction", NoKey, r)
         IN  IF r = "Ok"
             THEN worker' = With(w, [pc |-> LoadRetryAt,
                      txn |-> "aborted", ends |-> worker[w].ends + 1, ulog |-> lg])
             ELSE worker' = Returned(w, Err(r), lg, "aborted", worker[w].ends + 1)
    /\ UNCHANGED <<cfgvars, aborted, genvars, pb, mainvars, ctrvars, committed, wlvars, keyvars>>

\* lib.rs: the value a worker returns from the `err` arm: the abort's own
\* failure when db.abort_transaction(txn)? fails, else the data call's
FatalReturn_Always(e, abort_res) == e

FatalReturn(e, abort_res) == IF abort_res = "Ok" THEN e ELSE abort_res

\* lib.rs: err arm: db.abort_transaction(txn)?; return err
LoadAbortFail(w) ==
    /\ w[1] = "load" /\ worker[w].pc = "abort_fail"
    /\ \E r \in Outcomes :
         worker' = Returned(w, Err(FatalReturn(worker[w].err, r)),
                            Logged(w, "abort_transaction", NoKey, r),
                            "aborted", worker[w].ends + 1)
    /\ UNCHANGED <<cfgvars, aborted, genvars, pb, mainvars, ctrvars, committed, wlvars, keyvars>>


\* ---------------------------------------------------------------- bench_txn
\* lib.rs: the match on the client call's result
TxnMatch_ContinueWithoutAbort(res) ==
    IF res = "Ok" THEN "ok_arm"
    ELSE IF res = "TransactionAborted" THEN "start"
    ELSE "abort_fail"

TxnMatch_CommitOnAbort(res) ==
    IF res = "Ok" THEN "ok_arm"
    ELSE IF res = "TransactionAborted" THEN "ok_arm"
    ELSE "abort_fail"

TxnMatch(res) ==
    IF res = "Ok" THEN "ok_arm"
    ELSE IF res = "TransactionAborted" THEN "abort_retry"
    ELSE "abort_fail"

\* lib.rs: where a Client method goes after its first backend call returned
\* r: rmw_txn's `db.read(...)?` goes on to db.update only when the read
\* returned Ok; every other result is the method's result, which bench_txn
\* matches
AfterFirstCall_UpdateAfterFailedRead(o, r) ==
    IF o = "ReadModifyWrite" THEN "call2" ELSE TxnMatch(r)

AfterFirstCall_SecondCallAlways(o, r) ==
    IF r = "Ok" THEN "call2" ELSE TxnMatch(r)

AfterFirstCall(o, r) ==
    IF r = "Ok" /\ o = "ReadModifyWrite" THEN "call2" ELSE TxnMatch(r)

\* lib.rs: the backend call each Client method issues first
FirstCall(o) ==
    CASE o = "Read" -> "read"
      [] o = "Update" -> "update"
      [] o = "Insert" -> "insert"
      [] o = "Scan" -> "scan"
      [] o = "ReadModifyWrite" -> "read"

\* lib.rs: `for _ in 0..num_ops { let op = workload.next_operation(); ...`,
\* and Ok(total_count) after the loop
TxnLoop(w) ==
    /\ w[1] = "txn" /\ worker[w].pc = "loop"
    /\ IF worker[w].b < worker[w].num_ops
       THEN \E o \in NextOperations :
              worker' = With(w, [pc |-> "start", op |-> o, ulog |-> <<>>,
                                 attempt |-> 0,
                                 draws |-> worker[w].draws + 1,
                                 unit_base |-> worker[w].total_count])
       ELSE worker' = Returned(w, Ok(worker[w].total_count), <<>>,
                               worker[w].txn, worker[w].ends)
    /\ UNCHANGED <<cfgvars, aborted, genvars, pb, mainvars, ctrvars, committed, wlvars, keyvars>>

\* lib.rs: db.start_transaction()?
TxnStart(w) ==
    /\ w[1] = "txn" /\ worker[w].pc = "start"
    /\ \E r \in Outcomes :
         IF r = "Ok"
         THEN worker' = With(w, [pc |-> "key", txn |-> "open",
                    ends |-> 0, attempt |-> worker[w].attempt + 1,
                    ulog |-> Append(worker[w].ulog,
                        Entry("start_transaction", worker[w].attempt + 1, NoKey, r))])
         ELSE worker' = Returned(w, Err(r),
                    Append(worker[w].ulog,
                        Entry("start_transaction", worker[w].attempt + 1, NoKey, r)),
                    worker[w].txn, worker[w].ends)
    /\ UNCHANGED <<cfgvars, aborted, genvars, pb, mainvars, ctrvars, committed, wlvars, keyvars>>

\* lib.rs: Client::insert_txn: key = workload.next_sequence_key()
TxnSequenceKey(w) ==
    /\ w[1] = "txn" /\ worker[w].pc = "key" /\ worker[w].op = "Insert"
    /\ worker' = With(w, [pc |-> "call", key |-> key_generator])
    /\ key_generator' = FetchAdd(key_generator)
    /\ sequence_keys' = Append(sequence_keys, key_generator)
    /\ UNCHANGED <<cfgvars, aborted, insert_key_sequence, pb, mainvars, ctrvars,
                   committed, wlvars, load_inserted>>

\* lib.rs: Client::read_txn / update_txn / scan_txn / rmw_txn:
\* key = workload.next_transaction_key()
TxnTransactionKey(w) ==
    /\ w[1] = "txn" /\ worker[w].pc = "key" /\ worker[w].op # "Insert"
    /\ \E k \in TransactionKeys :
         worker' = With(w, [pc |-> "call", key |-> k])
    /\ UNCHANGED <<cfgvars, aborted, genvars, pb, mainvars, ctrvars, committed, wlvars, keyvars>>

\* lib.rs: the (first) backend call of the Client method
TxnCall(w) ==
    /\ w[1] = "txn" /\ worker[w].pc = "call"
    /\ \E r \in DataOutcomes :
       /\ aborted' = aborted + Aborts(r)
       /\ LET lg == Logged(w, FirstCall(worker[w].op), worker[w].key, r)
         IN  IF r = "Ok"
             THEN worker' = With(w, [ulog |-> lg,
                      pc |-> AfterFirstCall(worker[w].op, r)])
             ELSE worker' = With(w, [pc |-> AfterFirstCall(worker[w].op, r),
                                     err |-> r, ulog |-> lg])
    /\ UNCHANGED <<cfgvars, genvars, pb, mainvars, ctrvars, committed, wlvars, keyvars>>

\* lib.rs: Client::rmw_txn: db.update(...) after the read returned Ok
TxnCall2(w) ==
    /\ w[1] = "txn" /\ worker[w].pc = "call2"
    /\ \E r \in DataOutcomes :
       /\ aborted' = aborted + Aborts(r)
       /\ LET lg == Logged(w, "update", worker[w].key, r)
         IN  IF r = "Ok"
             THEN worker' = With(w, [ulog |-> lg, pc |-> TxnMatch("Ok")])
             ELSE worker' = With(w, [pc |-> TxnMatch(r), err |-> r, ulog |-> lg])
    /\ UNCHANGED <<cfgvars, genvars, pb, mainvars, ctrvars, committed, wlvars, keyvars>>

\* lib.rs: Ok(_) arm: total_count += 1; pb.inc(1)
TxnOkArm(w) ==
    /\ w[1] = "txn" /\ worker[w].pc = "ok_arm"
    /\ worker' = With(w, [pc |-> "commit",
                          total_count |-> worker[w].total_count + 1])
    /\ pb' = pb + 1
    /\ UNCHANGED <<cfgvars, aborted, genvars, mainvars, ctrvars, committed, wlvars, keyvars>>

\* lib.rs: db.commit_transaction(txn)?; break
TxnCommit(w) ==
    /\ w[1] = "txn" /\ worker[w].pc = "commit"
    /\ \E r \in Outcomes :
       /\ LET lg == Logged(w, "commit_transaction", NoKey, r)
         IN  IF r = "Ok"
             THEN worker' = With(w, [pc |-> "loop", b |-> worker[w].b + 1,
                      txn |-> "committed", ends |-> worker[w].ends + 1, ulog |-> lg])
             ELSE worker' = Returned(w, Err(r), lg, "committed", worker[w].ends + 1)
       /\ committed' = Commit(committed, "txn", r, 1)
    /\ UNCHANGED <<cfgvars, aborted, genvars, pb, mainvars, ctrvars, wlvars, keyvars>>

\* lib.rs: `let op = workload.next_operation()` is outside the inner `loop`:
\* a retry runs the operation o drawn for the iteration, not a new draw
RetryOperation_Redraw(o, redrawn) == redrawn

RetryOperation(o, redrawn) == o

\* lib.rs: Err(TransactionAborted) arm: db.abort_transaction(txn)?; continue
TxnAbortRetry(w) ==
    /\ w[1] = "txn" /\ worker[w].pc = "abort_retry"
    /\ \E r \in Outcomes, o \in NextOperations :
         LET lg == Logged(w, "abort_transaction", NoKey, r)
         IN  IF r = "Ok"
             THEN worker' = With(w, [pc |-> "start",
                      op |-> RetryOperation(worker[w].op, o),
                      txn |-> "aborted", ends |-> worker[w].ends + 1, ulog |-> lg])
             ELSE worker' = Returned(w, Err(r), lg, "aborted", worker[w].ends + 1)
    /\ UNCHANGED <<cfgvars, aborted, genvars, pb, mainvars, ctrvars, committed, wlvars, keyvars>>

\* lib.rs: err arm: db.abort_transaction(txn)?; return err.map(|_| 0)
TxnAbortFail(w) ==
    /\ w[1] = "txn" /\ worker[w].pc = "abort_fail"
    /\ \E r \in Outcomes :
         worker' = Returned(w, Err(FatalReturn(worker[w].err, r)),
                            Logged(w, "abort_transaction", NoKey, r),
                            "aborted", worker[w].ends + 1)
    /\ UNCHANGED <<cfgvars, aborted, genvars, pb, mainvars, ctrvars, committed, wlvars, keyvars>>

\* -------------------------------------------------------------------- Spec
Next ==
    \/ MainSpawn
    \/ MainJoinOk
    \/ MainJoinErr
    \/ MainLoaded
    \/ MainDone
    \/ \E w \in Workers : WorkerExit(w)
    \/ \E w \in Workers : LoadLoop(w)
    \/ \E w \in Workers : LoadBuild(w)
    \/ \E w \in Workers : LoadStart(w)
    \/ \E w \in Workers : LoadInsert(w)
    \/ \E w \in Workers : LoadOkArm(w)
    \/ \E w \in Workers : LoadCommit(w)
    \/ \E w \in Workers : LoadAbortRetry(w)
    \/ \E w \in Workers : LoadAbortFail(w)
    \/ \E w \in Workers : TxnLoop(w)
    \/ \E w \in Workers : TxnStart(w)
    \/ \E w \in Workers : TxnSequenceKey(w)
    \/ \E w \in Workers : TxnTransactionKey(w)
    \/ \E w \in Workers : TxnCall(w)
    \/ \E w \in Workers : TxnCall2(w)
    \/ \E w \in Workers : TxnOkArm(w)
    \/ \E w \in Workers : TxnCommit(w)
    \/ \E w \in Workers : TxnAbortRetry(w)
    \/ \E w \in Workers : TxnAbortFail(w)

Spec == Init /\ [][Next]_vars

\* the run against MockDb, whose calls all return Ok: the steps that can
\* happen then. Threads are scheduled by the OS: a thread that can take a
\* step takes it.
MockInit == Init /\ db = "MockDb"

MockNext ==
    \/ MainSpawn
    \/ MainJoinOk
    \/ MainLoaded
    \/ MainDone
    \/ \E w \in Workers : WorkerExit(w)
    \/ \E w \in Workers : LoadLoop(w)
    \/ \E w \in Workers : LoadBuild(w)
    \/ \E w \in Workers : LoadStart(w)
    \/ \E w \in Workers : LoadInsert(w)
    \/ \E w \in Workers : LoadOkArm(w)
    \/ \E w \in Workers : LoadCommit(w)
    \/ \E w \in Workers : TxnLoop(w)
    \/ \E w \in Workers : TxnStart(w)
    \/ \E w \in Workers : TxnSequenceKey(w)
    \/ \E w \in Workers : TxnTransactionKey(w)
    \/ \E w \in Workers : TxnCall(w)
    \/ \E w \in Workers : TxnCall2(w)
    \/ \E w \in Workers : TxnOkArm(w)
    \/ \E w \in Workers : TxnCommit(w)

MockSpec == MockInit /\ [][MockNext]_vars /\ WF_vars(MockNext)

\* the run against a backend whose calls return Ok or TransactionAborted,
\* the data calls TransactionAborted at most MaxRetry times: the steps that
\* can happen then (no result reaches the `err` arm of load_db / bench_txn)
RetryInit == RunInit({"AbortingDb"})

RetryNext ==
    \/ MainSpawn
    \/ MainJoinOk
    \/ MainJoinErr
    \/ MainLoaded
    \/ MainDone
    \/ \E w \in Workers : WorkerExit(w)
    \/ \E w \in Workers : LoadLoop(w)
    \/ \E w \in Workers : LoadBuild(w)
    \/ \E w \in Workers : LoadStart(w)
    \/ \E w \in Workers : LoadInsert(w)
    \/ \E w \in Workers : LoadOkArm(w)
    \/ \E w \in Workers : LoadCommit(w)
    \/ \E w \in Workers : LoadAbortRetry(w)
    \/ \E w \in Workers : TxnLoop(w)
    \/ \E w \in Workers : TxnStart(w)
    \/ \E w \in Workers : TxnSequenceKey(w)
    \/ \E w \in Workers : TxnTransactionKey(w)
    \/ \E w \in Workers : TxnCall(w)
    \/ \E w \in Workers : TxnCall2(w)
    \/ \E w \in Workers : TxnOkArm(w)
    \/ \E w \in Workers : TxnCommit(w)
    \/ \E w \in Workers : TxnAbortRetry(w)

RetrySpec == RetryInit /\ [][RetryNext]_vars /\ WF_vars(RetryNext)

\* ------------------------------- a CounterGenerator shared by several threads
\* generator.rs: CounterGenerator::next called by thread t: the fetch_add is
\* one atomic step that returns the old value
CounterNext(t) ==
    /\ SumSeq([i \in 1..MaxCallers |-> Len(got[i])]) < MaxCalls
    /\ got' = [got EXCEPT ![t] = Append(@, counter)]
    /\ counter' = FetchAdd(counter)
    /\ UNCHANGED <<cfgvars, aborted, genvars, pb, mainvars, worker, counter_init,
                   last_values, committed, wlvars, keyvars>>

\* generator.rs: CounterGenerator::last_value stores nothing
AfterLastValue_Advances(c) == c + 1

AfterLastValue(c) == c

CounterLastValue(t) ==
    /\ Len(last_values) < MaxPeeks
    /\ last_values' = Append(last_values, LastValue(counter))
    /\ counter' = AfterLastValue(counter)
    /\ UNCHANGED <<cfgvars, aborted, genvars, pb, mainvars, worker, counter_init,
                   got, committed, wlvars, keyvars>>

CounterInit ==
    /\ nr_threads = 1 /\ db = "MockDb" /\ batch_size = BatchSize
    /\ spec = [record_count |-> 2, operation_count |-> 0, insert_start |-> 0,
               mix |-> CHOOSE m \in Mixes : m.Read = 1]
    /\ ops = BuildOps(spec.mix)
    /\ key_generator = CounterNew(0)
    /\ insert_key_sequence = CounterNew(2)
    /\ pb = 0
    /\ aborted = 0
    /\ phase = "load" /\ mpc = "spawn" /\ mi = 0
    /\ results = <<>> /\ loaded = 0 /\ nr_txns = 0 /\ run_result = NoRet
    /\ worker = [w \in Workers |-> Idle]
    /\ \E v \in 0..MaxStart : counter = CounterNew(v) /\ counter_init = v
    /\ got = [t \in Callers |-> <<>>]
    /\ last_values = <<>>
    /\ sequence_keys = <<>> /\ load_inserted = <<>>
    /\ committed = NoneCommitted
    /\ overflow_checks = FALSE /\ workload = Good /\ drawn = NoDraw

CounterStep ==
    \/ \E t \in Callers : CounterNext(t)
    \/ \E t \in Callers : CounterLastValue(t)

CounterSpec == CounterInit /\ [][CounterStep]_vars


\* --------------------------- CoreWorkload::new and the generators it builds
\* the specs CoreWorkload::new is applied to: the default one, and every
\* combination of a DistributionSpec per slot, a mix (one of them all zero),
\* a field count and a record count
DistributionSpecs ==
    { Constant(MaxLen), UniformSpec(0, MaxLen), UniformSpec(MaxLen, MaxLen),
      Zipfian(MaxLen, ZIPFIAN_CONSTANT), Zipfian(MaxLen, ThetaOne),
      Zipfian(0, ZIPFIAN_CONSTANT), Latest }

BuildMixes ==
    Mixes \cup { [Read |-> 0, Update |-> 0, Insert |-> 0, Scan |-> 0,
                  ReadModifyWrite |-> 0] }

WorkloadSpecs ==
    {DefaultSpec} \cup
    [field_count : 0..MaxFields, field_len_dist : DistributionSpecs,
     mix : BuildMixes, request_dist : DistributionSpecs,
     scan_len_dist : DistributionSpecs, insert_start : {MaxStart},
     record_count : 0..MaxRecords, operation_count : {MaxOps}]

BuildInit ==
    /\ spec \in WorkloadSpecs
    /\ overflow_checks \in BOOLEAN
    /\ workload = NotBuilt /\ drawn = NoDraw
    /\ ops = <<>> /\ key_generator = 0 /\ insert_key_sequence = 0
    /\ nr_threads = 1 /\ db = "MockDb" /\ batch_size = BatchSize
    /\ pb = 0 /\ aborted = 0
    /\ phase = "load" /\ mpc = "spawn" /\ mi = 0
    /\ results = <<>> /\ loaded = 0 /\ nr_txns = 0 /\ run_result = NoRet
    /\ worker = [w \in Workers |-> Idle]
    /\ counter = 0 /\ counter_init = 0 /\ got = [t \in Callers |-> <<>>]
    /\ last_values = <<>>
    /\ sequence_keys = <<>> /\ load_inserted = <<>>
    /\ committed = NoneCommitted

\* workload.rs: CoreWorkload::new(spec)
WorkloadNew ==
    /\ workload = NotBuilt
    /\ workload' = CoreWorkloadNew(spec, overflow_checks)
    /\ IF workload'.tag = "Ok"
       THEN /\ ops' = BuildOps(spec.mix)
            /\ key_generator' = CounterNew(spec.insert_start)
            /\ insert_key_sequence' = CounterNew(spec.record_count)
       ELSE UNCHANGED <<ops, genvars>>
    /\ UNCHANGED <<spec, nr_threads, batch_size, db, aborted, pb, mainvars,
                   worker, ctrvars, committed, overflow_checks, drawn, keyvars>>

\* workload.rs: next_operation
NextOperation ==
    /\ workload.tag = "Ok"
    /\ \E o \in NextOperations :
         drawn' = [gen |-> "op_generator", op |-> o, index |-> 0]
    /\ UNCHANGED <<cfgvars, aborted, genvars, pb, mainvars, worker, ctrvars,
                   committed, overflow_checks, workload, keyvars>>

\* workload.rs: next_field_name: field_generator.next()
NextFieldName ==
    /\ workload.tag = "Ok"
    /\ \E i \in FieldIndexes(spec) :
         drawn' = [gen |-> "field_generator", op |-> "none", index |-> i]
    /\ UNCHANGED <<cfgvars, aborted, genvars, pb, mainvars, worker, ctrvars,
                   committed, overflow_checks, workload, keyvars>>

\* workload.rs: next_scan_length
NextScanLength ==
    /\ workload.tag = "Ok"
    /\ \E v \in ScanLengths(spec) :
         drawn' = [gen |-> "scan_len_generator", op |-> "none", index |-> v]
    /\ UNCHANGED <<cfgvars, aborted, genvars, pb, mainvars, worker, ctrvars,
                   committed, overflow_checks, workload, keyvars>>

\* workload.rs: next_transaction_key: key_sampler.next()
NextTransactionKey ==
    /\ workload.tag = "Ok"
    /\ \E r \in SampledKeys(spec, insert_key_sequence, overflow_checks) :
         drawn' = IF r.panic
                  THEN [gen |-> "key_sampler", op |-> "panic", index |-> 0]
                  ELSE [gen |-> "key_sampler", op |-> "none", index |-> r.key]
    /\ UNCHANGED <<cfgvars, aborted, genvars, pb, mainvars, worker, ctrvars,
                   committed, overflow_checks, workload, keyvars>>

BuildNext ==
    \/ WorkloadNew
    \/ NextOperation
    \/ NextFieldName
    \/ NextScanLength
    \/ NextTransactionKey

BuildSpec == BuildInit /\ [][BuildNext]_vars

\* ================================================================== claims
Range(f) == { f[i] : i \in DOMAIN f }

DataCalls == {"read", "insert", "update", "scan"}
EndCalls  == {"commit_transaction", "abort_transaction"}

IsDataCall(e) == e.call \in DataCalls
IsEndCall(e)  == e.call \in EndCalls
IsAbortedData(e) == e.call \in DataCalls /\ e.res = "TransactionAborted"
IsFatalData(e) ==
    e.call \in DataCalls /\ e.res \notin {"Ok", "TransactionAborted"}

TxnWorkers  == { w \in Workers : w[1] = "txn" }
LoadWorkers == { w \in Workers : w[1] = "load" }

\* ---- C1
TotalCalls == SumSeq([i \in 1..MaxCallers |-> Len(got[i])])

ReturnedValues == UNION { Range(got[t]) : t \in Callers }

\* C1: N next() calls by any number of threads, in any interleaving, return
\* exactly the values v .. v+N-1, each once, and every thread sees its own
\* results strictly increasing.
C1_CounterExactlyOnce ==
    /\ ReturnedValues = counter_init..(counter_init + TotalCalls - 1)
    /\ Cardinality(ReturnedValues) = TotalCalls
    /\ \A t \in Callers : \A i, j \in DOMAIN got[t] :
          i < j => got[t][i] < got[t][j]

\* three threads have interleaved their calls
C1_Witness ==
    /\ TotalCalls = MaxCalls
    /\ \A t \in Callers : Len(got[t]) >= 1
    /\ \E t, u \in Callers :
          /\ t # u /\ Len(got[t]) >= 2
          /\ got[t][1] < got[u][1] /\ got[u][1] < got[t][2]

\* ---- C2
\* worker w has just committed a unit of work: it is back at the loop head
\* and the unit's calls are still in ulog
UnitCommitted(w) ==
    /\ worker[w].pc = "loop"
    /\ worker[w].ulog # <<>>

AbortedAttempts(w) == Len(SelectSeq(worker[w].ulog, IsAbortedData))

UnitEnds(w) == SelectSeq(worker[w].ulog, IsEndCall)

\* C2: a transaction-phase unit whose first N attempts fail with
\* TransactionAborted and whose attempt N+1 succeeds makes exactly N
\* abort_transaction calls followed by exactly one commit_transaction, and
\* adds exactly 1 to the worker's count.
C2_RetryThenCommitOnce ==
    \A w \in TxnWorkers :
        UnitCommitted(w) =>
            /\ Len(UnitEnds(w)) = AbortedAttempts(w) + 1
            /\ \A i \in 1..AbortedAttempts(w) :
                  UnitEnds(w)[i].call = "abort_transaction"
            /\ UnitEnds(w)[AbortedAttempts(w) + 1].call = "commit_transaction"
            /\ worker[w].total_count = worker[w].unit_base + 1

\* a unit committed after two aborted attempts
C2_Witness ==
    \E w \in TxnWorkers :
        /\ UnitCommitted(w)
        /\ AbortedAttempts(w) >= 2
        /\ worker[w].attempt = AbortedAttempts(w) + 1

\* ---- C3
\* positions at which the worker is about to start a transaction, or is
\* between units, or has returned
OutsideTxn == {"loop", "build", "start", "ret"}

\* positions at which the worker issues a data call on its handle
DataPositions == {"exec", "key", "call", "call2"}

\* C3: in both phases every transaction a successful start_transaction
\* returned is ended by exactly one commit_transaction or abort_transaction
\* before the worker starts another transaction or returns, and no data call
\* is issued on a transaction that was committed or aborted.
C3_BeginExecuteEnd ==
    \A w \in Workers :
        /\ worker[w].ends <= 1
        /\ worker[w].pc \in OutsideTxn =>
              /\ worker[w].txn # "open"
              /\ worker[w].txn \in {"committed", "aborted"} => worker[w].ends = 1
        /\ worker[w].pc \in DataPositions =>
              worker[w].txn = "open" /\ worker[w].ends = 0
        /\ \A i, j \in DOMAIN worker[w].ulog :
              (i < j /\ IsEndCall(worker[w].ulog[i])
                     /\ worker[w].ulog[j].call # "start_transaction")
                  => worker[w].ulog[j].txn # worker[w].ulog[i].txn

\* a unit that was aborted, retried in a second transaction and committed
C3_Witness ==
    \E w \in Workers :
        /\ worker[w].pc = "loop"
        /\ worker[w].txn = "committed"
        /\ worker[w].attempt >= 2
        /\ Len(UnitEnds(w)) = worker[w].attempt

\* ---- C4
\* C4: in the transaction phase the retry of an aborted attempt passes the
\* same key to the backend as the aborted attempt; a retried Insert re-uses
\* its sequence key id.
C4_RetrySameKey ==
    \A w \in TxnWorkers :
        \A i, j \in DOMAIN worker[w].ulog :
            (IsDataCall(worker[w].ulog[i]) /\ IsDataCall(worker[w].ulog[j]))
                => worker[w].ulog[i].key = worker[w].ulog[j].key

\* ---- C5
\* C5: a TransactionAborted returned by any backend operation of a unit
\* (start, data call, commit, abort) is retried: no worker terminates its
\* phase with it.
C5_AbortedNeverTerminates ==
    \A w \in Workers :
        ~(worker[w].ret.tag = "Err" /\ worker[w].ret.err = "TransactionAborted")

\* ---- C6
\* the calls that follow a fatal data-call failure at ulog[i]: nothing yet
\* (the worker is about to abort), or one abort_transaction on the same
\* handle after which the worker has returned `returned`
FatalHandled(w, i, returned) ==
    \/ /\ Len(worker[w].ulog) = i
       /\ worker[w].pc = "abort_fail"
    \/ /\ Len(worker[w].ulog) = i + 1
       /\ worker[w].ulog[i + 1].call = "abort_transaction"
       /\ worker[w].ulog[i + 1].txn = worker[w].ulog[i].txn
       /\ worker[w].pc = "ret"
       /\ worker[w].ret = Err(returned)

LoadReported == phase = "txn"

\* C7 (as claimed): against a backend that never fails the load phase reports
\* exactly record_count records.
C7_LoadsRecordCount ==
    LoadReported => loaded = spec.record_count

\* C7 (amended): against a backend that never fails the load phase
\* terminates and reports (record_count / nr_threads) * nr_threads records,
\* which is record_count when nr_threads divides it.
C7_LoadsWholeShares ==
    (db = "MockDb" /\ phase = "load") ~>
        (LoadReported /\ loaded = (spec.record_count \div nr_threads) * nr_threads)

\* two workers each loaded a full batch and a partial final batch
C7_Witness ==
    /\ db = "MockDb" /\ LoadReported
    /\ nr_threads = 2 /\ batch_size = BatchSize
    /\ batch_size < spec.record_count \div nr_threads
    /\ (spec.record_count \div nr_threads) % batch_size # 0
    /\ loaded = (spec.record_count \div nr_threads) * nr_threads

\* ---- C8
\* C8: all workers of a phase are started before the first one is joined.
C8_AllStartedBeforeJoin ==
    mpc = "join" =>
        \A i \in 1..nr_threads : worker[<<phase, i>>].pc # "idle"

\* ---- C9
\* C9: no transaction-phase worker starts, and no transaction-phase backend
\* call is made, until every load-phase worker has returned and been joined.
C9_PhasesNeverOverlap ==
    \A w \in TxnWorkers :
        (worker[w].pc # "idle" \/ worker[w].ulog # <<>>) =>
            /\ phase = "txn"
            /\ \A j \in 1..nr_threads : worker[<<"load", j>>].pc = "exited"

\* the second transaction-phase worker is inside a backend call sequence
C9_Witness ==
    /\ nr_threads = 2
    /\ worker[<<"txn", 2>>].pc = "call"
    /\ worker[<<"load", 2>>].pc = "exited"

\* ---- C10
\* C10: when a worker of a phase fails fatally run_ycsb returns an error and
\* every other worker of that phase has still run to the end of its share.
C10_SiblingsStillRun ==
    (mpc = "done" /\ run_result.tag = "Err") =>
        \A i \in 1..nr_threads : worker[<<phase, i>>].pc = "exited"

\* ---- C11
\* C11: in every reachable state the total reported to the progress bar of
\* the running phase is at most the number of units (records in load,
\* operations in the transaction phase) of transactions whose
\* commit_transaction has returned successfully.
C11_ProgressOnlyCommitted ==
    pb <= committed[phase]

\* ---- C12
\* C12: every operation next_operation returns has a strictly positive
\* proportion in the WorkloadSpec the workload was built from.
C12_DrawnHasPositiveProportion ==
    drawn.gen = "op_generator" => spec.mix[drawn.op] > 0

\* ---- C13
\* C13: CoreWorkload::new applied to WorkloadSpec::default() returns Ok: it
\* neither returns an error nor panics.
C13_DefaultBuilds ==
    (spec = DefaultSpec /\ workload # NotBuilt) => workload = Good

\* ---- C14
\* the slots that hold a distribution kind CoreWorkload::new does not support
UnsupportedSlot(s) ==
    \/ s.field_len_dist.kind \notin {"Constant", "Uniform"}
    \/ s.request_dist.kind = "Constant"
    \/ s.scan_len_dist.kind \notin {"Uniform", "Zipfian"}

\* C14: whenever a slot holds an unsupported distribution kind,
\* CoreWorkload::new returns Err(InvalidArgument) and builds no workload.
C14_UnsupportedIsInvalidArgument ==
    (workload # NotBuilt /\ UnsupportedSlot(spec))
        => workload = Failed("InvalidArgument")

\* ---- C15
\* the Zipfian the key sampler needs has a skew of exactly 1.0 or a domain
\* of fewer than 2 elements
MalformedKeyZipfian(s) ==
    \/ /\ s.request_dist.kind = "Zipfian"
       /\ \/ s.request_dist.theta = ThetaOne
          \/ s.record_count + (s.operation_count * s.mix.Insert) * 2 + 1 < 2
    \/ /\ s.request_dist.kind = "Latest"
       /\ s.record_count + 1 < 2

\* C15: building a CoreWorkload whose key sampler needs a Zipfian with
\* malformed parameters yields an error value from CoreWorkload::new;
\* construction never panics.
C15_MalformedZipfianIsError ==
    (/\ workload # NotBuilt
     /\ FieldLenGenerator(spec) = Good
     /\ MalformedKeyZipfian(spec))
        => workload = Failed("InvalidArgument")

\* ---- C16
\* C16: the field-selection generator is constructible for every field_count
\* >= 1 and returns every index of the closed range [0, field_count - 1]
\* and nothing outside it.
C16_UniformClosedRange ==
    (/\ workload # NotBuilt
     /\ FieldLenGenerator(spec) = Good
     /\ KeySampler(spec, overflow_checks) = Good
     /\ spec.field_count >= 1)
        => /\ FieldGenerator(spec, overflow_checks) = Good
           /\ FieldIndexes(spec) = 0..(spec.field_count - 1)

\* ---- C17
\* C17: ReadModifyWrite issues a read and then an update for the same key on
\* the same transaction handle; if the read fails no update call is made and
\* the read's failure is the result of the operation.
C17_RmwReadThenUpdate ==
    \A w \in TxnWorkers :
        worker[w].op = "ReadModifyWrite" =>
            \A i \in DOMAIN worker[w].ulog :
                LET lg == worker[w].ulog
                    last == i = Len(lg)
                IN  /\ lg[i].call = "update" =>
                          /\ i > 1
                          /\ lg[i - 1].call = "read" /\ lg[i - 1].res = "Ok"
                          /\ lg[i - 1].key = lg[i].key
                          /\ lg[i - 1].txn = lg[i].txn
                    /\ (lg[i].call = "read" /\ lg[i].res = "Ok") =>
                          IF last THEN worker[w].pc = "call2"
                          ELSE /\ lg[i + 1].call = "update"
                               /\ lg[i + 1].key = lg[i].key
                               /\ lg[i + 1].txn = lg[i].txn
                    /\ (lg[i].call = "read" /\ lg[i].res # "Ok") =>
                          IF last
                          THEN /\ worker[w].pc = TxnMatch(lg[i].res)
                               /\ worker[w].err = lg[i].res
                          ELSE lg[i + 1].call = "abort_transaction"

\* a ReadModifyWrite whose read failed in the first attempt and which read,
\* updated and committed in the second
C17_Witness ==
    \E w \in TxnWorkers :
        /\ worker[w].op = "ReadModifyWrite"
        /\ UnitCommitted(w)
        /\ \E i, j \in DOMAIN worker[w].ulog :
              /\ i < j
              /\ worker[w].ulog[i].call = "read" /\ worker[w].ulog[i].res # "Ok"
              /\ worker[w].ulog[j].call = "update" /\ worker[w].ulog[j].res = "Ok"

\* ---- C18
\* the data calls of attempt t of worker w's current unit
AttemptData(w, t) ==
    LET InAttempt(e) == IsDataCall(e) /\ e.txn = t
    IN  SelectSeq(worker[w].ulog, InAttempt)

\* the Client method of attempt t has returned
AttemptCalled(w, t) ==
    \/ t < worker[w].attempt
    \/ worker[w].pc \in {"ok_arm", "commit", "abort_retry", "abort_fail", "loop"}

\* C18: within one transaction attempt of the transaction phase Read,
\* Update, Insert and Scan each issue exactly one backend data call, and
\* ReadModifyWrite issues at most two, exactly two when its read succeeds.
C18_OneRoundTrip ==
    \A w \in TxnWorkers :
        worker[w].op \in Operations =>
            \A t \in 1..worker[w].attempt :
                LET calls == AttemptData(w, t)
                    rmw == worker[w].op = "ReadModifyWrite"
                IN  /\ Len(calls) <= IF rmw THEN 2 ELSE 1
                    /\ Len(calls) >= 1 => calls[1].call = FirstCall(worker[w].op)
                    /\ AttemptCalled(w, t) =>
                          Len(calls) = IF rmw /\ calls[1].res = "Ok" THEN 2 ELSE 1

\* a ReadModifyWrite whose update was aborted in the first attempt is about
\* to commit its second: two data calls in each attempt
C18_Witness ==
    \E w \in TxnWorkers :
        /\ worker[w].op = "ReadModifyWrite"
        /\ worker[w].pc = "commit"
        /\ worker[w].attempt = 2
        /\ Len(AttemptData(w, 1)) = 2 /\ Len(AttemptData(w, 2)) = 2

\* ---- C19
\* C19: once an Insert has committed in the transaction phase the insertion
\* frontier SkewedLatest reads (insert_key_sequence) has advanced beyond its
\* initial value record_count.
C19_FrontierTracksInserts ==
    \A w \in TxnWorkers :
        (UnitCommitted(w) /\ worker[w].op = "Insert")
            => insert_key_sequence > spec.record_count

\* ---- C20
RunDone == mpc = "done" /\ run_result = Ok(0)

ShareOf(w) ==
    Share(IF w[1] = "load" THEN spec.record_count ELSE spec.operation_count,
          nr_threads)

\* C21: under a backend whose calls return Ok or, finitely often,
\* TransactionAborted, no worker gives a unit up: a worker that returns
\* returns Ok with its whole share, and every worker that runs returns.
C21_AbortedUnitsComplete ==
    /\ [](\A w \in Workers :
            worker[w].pc \in {"ret", "exited"} => worker[w].ret = Ok(ShareOf(w)))
    /\ \A w \in Workers :
          (worker[w].pc = "loop")
             ~> (worker[w].pc = "exited" /\ worker[w].ret = Ok(ShareOf(w)))

\* C22: last_value never advances the counter: after any number of
\* last_value calls interleaved with next() calls the counter holds its
\* initial value plus the number of next() calls, and next() has returned
\* the values it returns without any last_value call.
C22_LastValueReadsOnly ==
    /\ counter = counter_init + TotalCalls
    /\ ReturnedValues = counter_init..(counter - 1)
    /\ \A i \in DOMAIN last_values :
          last_values[i] \in counter_init..counter

\* two last_value calls, with next() calls before, between and after them
C22_Witness ==
    /\ Len(last_values) = MaxPeeks
    /\ TotalCalls >= 3
    /\ counter_init < last_values[1]
    /\ last_values[1] < last_values[2]
    /\ last_values[2] < counter

\* ---- C23
\* C23: every value returned by a Zipfian generator over [min, max] lies in
\* [min, max]; here the scan length generator built by zipfian_gen(n, s)
\* over [0, n] and the Zipfian key sampler over [0, KeyZipfMax].
C23_ZipfianInRange ==
    /\ (drawn.gen = "scan_len_generator" /\ spec.scan_len_dist.kind = "Zipfian")
          => drawn.index \in 0..spec.scan_len_dist.a
    /\ (drawn.gen = "key_sampler" /\ spec.request_dist.kind = "Zipfian")
          => drawn.index \in 0..KeyZipfMax(spec)

\* ---- C24
\* positions of load_db between the end of the batch's construction and the
\* end of its unit
BatchBuilt == {"start", "exec", "ok_arm", "commit", "abort_retry", "abort_fail"}

\* the keys attempt t of worker w's current unit passed to db.insert
AttemptKeys(w, t) ==
    [i \in 1..Len(AttemptData(w, t)) |-> AttemptData(w, t)[i].key]

IsPrefix(p, q) ==
    /\ Len(p) <= Len(q)
    /\ \A i \in 1..Len(p) : p[i] = q[i]

\* C24: in the load phase a batch is built once: every attempt of a unit,
\* the retries after TransactionAborted included, inserts the keys of that
\* one batch in the batch's order (all of them when its inserts all return
\* Ok); retries take no further value from the insertion-sequence counter;
\* a batch holds min(batch_size, rest of the worker's share) inserts.
C24_BatchBuiltOnce ==
    \A w \in LoadWorkers :
       worker[w].pc \in BatchBuilt =>
          /\ Len(worker[w].batch) <= batch_size
          /\ Len(worker[w].batch)
                = Min(batch_size, worker[w].num_ops - worker[w].b)
          /\ key_generator = worker[w].batch[Len(worker[w].batch)] + 1
          /\ \A t \in 1..worker[w].attempt :
                /\ IsPrefix(AttemptKeys(w, t), worker[w].batch)
                /\ (t < worker[w].attempt
                       \/ worker[w].pc \in {"abort_retry", "abort_fail"})
                      => /\ AttemptKeys(w, t) # <<>>
                         /\ AttemptData(w, t)[Len(AttemptData(w, t))].res # "Ok"
                /\ worker[w].pc \in {"ok_arm", "commit"} /\ t = worker[w].attempt
                      => AttemptKeys(w, t) = worker[w].batch

\* a batch of two inserts whose first attempt was aborted at its second
\* insert is about to be committed by its second attempt
C24_Witness ==
    \E w \in LoadWorkers :
       /\ worker[w].pc = "commit" /\ worker[w].attempt = 2
       /\ Len(worker[w].batch) = 2
       /\ Len(AttemptKeys(w, 1)) = 2
       /\ AttemptKeys(w, 2) = worker[w].batch

\* ---- C25
\* positions of bench_txn inside the body of `for _ in 0..num_ops`
InIteration ==
    {"start", "key", "call", "call2", "ok_arm", "commit", "abort_retry",
     "abort_fail"}

\* C25: in the transaction phase a worker has called next_operation once
\* per iteration it has entered, so exactly its share many times when it
\* returns Ok, and every attempt of an iteration runs the Client method of
\* the operation drawn for the iteration.
C25_OneDrawPerOperation ==
    \A w \in TxnWorkers :
       /\ worker[w].pc = "loop" => worker[w].draws = worker[w].b
       /\ worker[w].pc \in InIteration =>
             /\ worker[w].draws = worker[w].b + 1
             /\ \A t \in 1..worker[w].attempt :
                   AttemptData(w, t) # <<>> =>
                      AttemptData(w, t)[1].call = FirstCall(worker[w].op)
       /\ (worker[w].pc = "ret" /\ worker[w].ret.tag = "Ok") =>
             worker[w].draws = Share(spec.operation_count, nr_threads)

\* the second operation of a worker is about to commit in its second
\* attempt, after two draws
C25_Witness ==
    \E w \in TxnWorkers :
       /\ worker[w].pc = "commit" /\ worker[w].attempt = 2
       /\ worker[w].b = 1 /\ worker[w].draws = 2
       /\ AttemptData(w, 1) # <<>>

\* ---- C26
NoDuplicates(sq) == Cardinality(Range(sq)) = Len(sq)

\* C26: over a whole run no two calls of next_sequence_key obtain the same
\* key id, and when the load phase has ended without failure the key ids
\* inserted by its committed transactions are exactly insert_start ..
\* insert_start + loaded - 1, each inserted by exactly one committed
\* transaction.
C26_SequenceKeysUnique ==
    /\ NoDuplicates(sequence_keys)
    /\ LoadReported =>
          /\ Range(load_inserted)
                = spec.insert_start..(spec.insert_start + loaded - 1)
          /\ Len(load_inserted) = loaded

\* two workers loaded their shares, one of them after an aborted attempt,
\* and an Insert of the transaction phase took a further key id
C26_Witness ==
    /\ LoadReported /\ nr_threads = 2
    /\ loaded >= 2 /\ Len(load_inserted) = loaded
    /\ aborted >= 1
    /\ Len(sequence_keys) > loaded

====
